---- MODULE Spec2Model ----
(***************************************************************************)
(* The scull device of src/scull/scull.rs: one ScullDevice (a list of      *)
(* ScullQset, each an optional array of optional quanta), and its          *)
(* operations trim, follow, read_iter and write_iter.                      *)
(*                                                                         *)
(* Representation.  The list dev.data -> next -> next ... is the sequence  *)
(* `data` (<<>> is None).  A ScullQset is [alloc, slots]: alloc is         *)
(* data.is_some(), and slots maps the indices s of the slot array with     *)
(* data[s] = Some(quantum) to that quantum (an index outside DOMAIN slots  *)
(* is a None slot).  A quantum, a KVec<u8> of length `quantum`, is the     *)
(* function from the positions of its non-zero bytes to those bytes (a     *)
(* position outside the domain holds 0).  Both are exact: two devices are  *)
(* equal iff their representations are.                                    *)
(***************************************************************************)
EXTENDS Integers, Sequences, FiniteSets, TLC

\* Program constants.
SCULL_QUANTUM == 4000
SCULL_QSET == 1000

\* Bounds of the model.
MaxOps == 2
MaxLen == 2
MaxByte == 1
MaxQPos == 1
MaxItem == 1
MaxQuanta == 2
NWriters == 2
MaxNrOver == 1
MaxSlot == 2
NProcs == 2

VARIABLES
    data,       \* ScullDevice.data: the list of ScullQset
    qset,       \* ScullDevice.qset
    size,       \* ScullDevice.size
    quantum,    \* ScullDevice.quantum
    op,         \* the last call: "open", "read", "write", "trim", "ioctl"
    cmd,        \* ioctl: its cmd
    f_pos,      \* its kiocb.ki_pos on entry
    buf,        \* write: the bytes of the iov
    len,        \* iov.len() on entry
    ret,        \* its result: [ok, n, err]
    out,        \* read: the bytes copied to the iov
    ki_pos,     \* kiocb.ki_pos on return
    nops,       \* number of calls made
    pre,        \* history: the device on entry of the last call
    high,       \* history: highest f_pos + written of the successful writes
                \* since the device was created or trimmed
    ulen,       \* the last call, a write: the bytes of the iov that can be read
                \* from user memory
    failed_after, \* history: a failed write: the allocations that succeeded
                \* in it before the one that failed; otherwise -1
    phase,      \* SpecScan: "write", "read", "done"; otherwise "free"
    cursor,     \* SpecScan: the reader's position
    acc,        \* SpecScan: the bytes the reader has got so far
    lock,       \* SpecConc: the writer holding the device mutex, or 0
    pc,         \* SpecConc: each writer's position: "start", "locked",
                \* "written", "done"
    plan,       \* SpecConc: each writer's write, [pos, bytes]
    order,      \* SpecConc, SpecLock history: the callers in the order they
                \* took the mutex
    res,        \* SpecLock: each caller's result, [ret, out]
    loc,        \* SpecLock: each caller's local variables
    lpos,       \* SpecLocate: the offset
    rloc,       \* SpecLocate: what read_iter finds for it
    wloc        \* SpecLocate: what write_iter finds for it

dev == [data |-> data, qset |-> qset, size |-> size, quantum |-> quantum]
devvars == <<data, qset, size, quantum>>
callvars == <<op, cmd, f_pos, buf, len, ulen, ret, out, ki_pos, nops, pre, high,
              failed_after>>
scanvars == <<phase, cursor, acc>>
concvars == <<lock, pc, plan, order>>
auxvars == <<res, loc, lpos, rloc, wloc>>
vars == <<data, qset, size, quantum, op, cmd, f_pos, buf, len, ulen, ret, out, ki_pos, nops,
          pre, high, failed_after, phase, cursor, acc, lock, pc, plan, order,
          res, loc, lpos, rloc, wloc>>

----------------------------------------------------------------------------
\* Values

EmptyFn == [i \in {} |-> 0]

Min(a, b) == IF a < b THEN a ELSE b
Max(a, b) == IF a > b THEN a ELSE b

\* ScullQset::new(): data: None, next: None
ScullQset_new == [alloc |-> FALSE, slots |-> EmptyFn]

\* kvec![0; quantum]: every byte 0
ZeroQuantum == EmptyFn

\* quantum_vec[i]
ByteAt(q, i) == IF i \in DOMAIN q THEN q[i] ELSE 0

\* &quantum_vec[from..from + n] as a sequence of bytes
Slice(q, from, n) == [k \in 1..n |-> ByteAt(q, from + k - 1)]

Ok(n) == [ok |-> TRUE, n |-> n, err |-> "none"]
Err(e) == [ok |-> FALSE, n |-> 0, err |-> e]

----------------------------------------------------------------------------
\* ScullDevice::follow.  `a` is the number of allocations that still succeed
\* (GFP_KERNEL allocations fail when it is 0).  Result: the list, the
\* position idx (1-based) of the qset reached, the allocations left.

RECURSIVE follow_loop(_, _, _, _)
follow_loop(d, i, n, a) ==
    IF n = 0 THEN [data |-> d, idx |-> i, a |-> a, ok |-> TRUE]
    ELSE IF Len(d) = i
         THEN IF a = 0
              THEN [data |-> d, idx |-> 0, a |-> 0, ok |-> FALSE]
              ELSE follow_loop(Append(d, ScullQset_new), i + 1, n - 1, a - 1)
         ELSE follow_loop(d, i + 1, n - 1, a)

follow_short(d, n, a) ==
    IF d = <<>>
    THEN IF a = 0
         THEN [data |-> d, idx |-> 0, a |-> 0, ok |-> FALSE]
         ELSE follow_loop(<<ScullQset_new>>, 1, Max(n - 1, 0), a - 1)
    ELSE follow_loop(d, 1, Max(n - 1, 0), a)

follow(d, n, a) ==
    IF d = <<>>
    THEN IF a = 0
         THEN [data |-> d, idx |-> 0, a |-> 0, ok |-> FALSE]
         ELSE follow_loop(<<ScullQset_new>>, 1, n, a - 1)
    ELSE follow_loop(d, 1, n, a)

----------------------------------------------------------------------------
\* ScullDevice::trim

trim_keep_size(d) == [d EXCEPT !.data = <<>>]

trim(d) == [d EXCEPT !.data = <<>>, !.size = 0]

----------------------------------------------------------------------------
\* IovIterDest::copy_to_iter / simple_read_from_buffer (kernel::iov), as the
\* call at read_iter uses them.  simple_read_from_buffer takes `contents` as
\* the whole file and *ppos as the position in it: it copies contents[pos..]
\* and sets *ppos = pos + copied.  The user memory of the iov of a read is
\* taken as writable: iovlen bytes can be copied to it.

simple_read_from_buffer(iovlen, ppos, contents) ==
    IF ppos < 0 THEN [ret |-> Err("EINVAL"), out |-> <<>>, ppos |-> ppos]
    ELSE IF ppos >= Len(contents) THEN [ret |-> Ok(0), out |-> <<>>, ppos |-> ppos]
    ELSE LET n == Min(iovlen, Len(contents) - ppos)
         IN [ret |-> Ok(n), out |-> SubSeq(contents, ppos + 1, ppos + n),
             ppos |-> ppos + n]

\* "Find listitem, qset index, and offset in the quantum" (read_iter)
read_locate(d, pos) ==
    LET itemsize == d.quantum * d.qset
        rest == pos % itemsize
    IN [item |-> pos \div itemsize, s_pos |-> rest \div d.quantum,
        q_pos |-> rest % d.quantum]

\* "Read only up to the end of this quantum"
read_clamp(count, qu, q_pos) == IF count > qu - q_pos THEN qu - q_pos ELSE count

\* f_pos >= dev.size
read_at_end_strict(pos, sz) == pos > sz

read_at_end(pos, sz) == pos >= sz

\* MiscDevice::read_iter.  Result: the device, the result, the bytes copied,
\* ki_pos on return, the allocations left.
read_iter(d, pos, iovlen, a) ==
    LET item == read_locate(d, pos).item
        s_pos == read_locate(d, pos).s_pos
        q_pos == read_locate(d, pos).q_pos
        fl == follow(d.data, item, a)
        d1 == [d EXCEPT !.data = fl.data]
        empty(dd, left) == [dev |-> dd, ret |-> Ok(0), out |-> <<>>, ki_pos |-> pos,
                            a |-> left]
    IN  IF read_at_end(pos, d.size) THEN empty(d, a)
        ELSE IF ~fl.ok THEN empty(d1, fl.a)
        ELSE IF ~fl.data[fl.idx].alloc THEN empty(d1, fl.a)
        ELSE IF s_pos \notin DOMAIN fl.data[fl.idx].slots THEN empty(d1, fl.a)
        ELSE LET quantum_vec == fl.data[fl.idx].slots[s_pos]
                 count == read_clamp(iovlen, d.quantum, q_pos)
                 r == simple_read_from_buffer(iovlen, pos, Slice(quantum_vec, q_pos, count))
             IN [dev |-> d1, ret |-> r.ret, out |-> r.out, ki_pos |-> r.ppos,
                 a |-> fl.a]

----------------------------------------------------------------------------
\* MiscDevice::write_iter

\* "Find listitem, qset index and offset in the quantum" (write_iter)
write_locate_flat(d, pos) ==
    LET itemsize == d.quantum * d.qset
    IN [item |-> pos \div itemsize, s_pos |-> pos \div d.quantum,
        q_pos |-> pos % d.quantum]

write_locate(d, pos) ==
    LET itemsize == d.quantum * d.qset
        rest == pos % itemsize
    IN [item |-> pos \div itemsize, s_pos |-> rest \div d.quantum,
        q_pos |-> rest % d.quantum]

\* data: the slot array of the qset at idx, allocated if absent
alloc_slots(d, idx, a) ==
    IF d[idx].alloc THEN [data |-> d, a |-> a, ok |-> TRUE]
    ELSE IF a = 0 THEN [data |-> d, a |-> 0, ok |-> FALSE]
    ELSE [data |-> [d EXCEPT ![idx] = [alloc |-> TRUE, slots |-> EmptyFn]],
          a |-> a - 1, ok |-> TRUE]

\* data[s_pos]: the quantum, allocated (kvec!, then KBox::new) if absent
alloc_quantum_always(d, idx, s_pos, a) ==
    IF a < 2 THEN [data |-> d, a |-> 0, ok |-> FALSE]
    ELSE [data |-> [d EXCEPT ![idx].slots =
                      [s \in DOMAIN d[idx].slots \cup {s_pos} |->
                         IF s = s_pos THEN ZeroQuantum ELSE d[idx].slots[s]]],
          a |-> a - 2, ok |-> TRUE]

alloc_quantum(d, idx, s_pos, a) ==
    IF s_pos \in DOMAIN d[idx].slots THEN [data |-> d, a |-> a, ok |-> TRUE]
    ELSE IF a < 2 THEN [data |-> d, a |-> 0, ok |-> FALSE]
    ELSE [data |-> [d EXCEPT ![idx].slots =
                      [s \in DOMAIN d[idx].slots \cup {s_pos} |->
                         IF s = s_pos THEN ZeroQuantum ELSE d[idx].slots[s]]],
          a |-> a - 2, ok |-> TRUE]

\* "Write only up to the end of this quantum"
write_clamp(count, qu, q_pos) == IF count > qu - q_pos THEN qu - q_pos ELSE count

\* iov.copy_from_iter(&mut quantum_vec[q_pos..q_pos + count]): bytes of the
\* iov are copied to q_pos.. until count are copied, the iov is at its end
\* or the user memory cannot be read (the first readable bytes of it can);
\* the result is the number copied
copy_from_iter(q, q_pos, count, bytes, readable) ==
    LET n == Min(Min(count, Len(bytes)), readable)
        val(i) == IF i >= q_pos /\ i < q_pos + n THEN bytes[i - q_pos + 1] ELSE q[i]
        dom == {i \in DOMAIN q \cup (q_pos .. q_pos + n - 1) : val(i) # 0}
    IN [q |-> [i \in dom |-> val(i)], n |-> n]

\* "Update the size"
update_size_always(sz, pos) == pos

update_size(sz, pos) == IF sz < pos THEN pos ELSE sz

\* a failed allocation: `?` returns ENOMEM; what was linked stays (dd is the
\* list at that point), size and ki_pos are as on entry
write_fail_rollback(d, dd, pos) ==
    [dev |-> d, ret |-> Err("ENOMEM"), out |-> <<>>, ki_pos |-> pos, a |-> 0]

write_fail_extra(d, dd, pos) ==
    [dev |-> [d EXCEPT !.data = Append(dd, ScullQset_new)], ret |-> Err("ENOMEM"),
     out |-> <<>>, ki_pos |-> pos, a |-> 0]

write_fail_sized(d, dd, pos) ==
    [dev |-> [d EXCEPT !.data = dd, !.size = update_size(d.size, pos)],
     ret |-> Err("ENOMEM"), out |-> <<>>, ki_pos |-> pos, a |-> 0]

write_fail(d, dd, pos) ==
    [dev |-> [d EXCEPT !.data = dd], ret |-> Err("ENOMEM"), out |-> <<>>, ki_pos |-> pos,
     a |-> 0]

\* Result: the device, Ok(retval) of copy_from_iter or ENOMEM, ki_pos on
\* return (+= count, whatever was copied), the allocations left.
write_iter(d, pos, bytes, a, readable) ==
    LET item == write_locate(d, pos).item
        s_pos == write_locate(d, pos).s_pos
        q_pos == write_locate(d, pos).q_pos
        fl == follow(d.data, item, a)
        sl == alloc_slots(fl.data, fl.idx, fl.a)
        qa == alloc_quantum(sl.data, fl.idx, s_pos, sl.a)
    IN  IF ~fl.ok THEN write_fail(d, fl.data, pos)
        ELSE IF ~sl.ok THEN write_fail(d, sl.data, pos)
        ELSE IF ~qa.ok THEN write_fail(d, qa.data, pos)
        ELSE LET count == write_clamp(Len(bytes), d.quantum, q_pos)
                 cp == copy_from_iter(qa.data[fl.idx].slots[s_pos], q_pos, count, bytes,
                                      readable)
                 newpos == pos + count
             IN [dev |-> [d EXCEPT !.data = [qa.data EXCEPT ![fl.idx].slots[s_pos] = cp.q],
                                   !.size = update_size(d.size, newpos)],
                 ret |-> Ok(cp.n), out |-> <<>>, ki_pos |-> newpos, a |-> qa.a]

----------------------------------------------------------------------------
\* MiscDevice::ioctl.  A cmd, a u32, is the record of its four bit fields
\* [dir (2 bits), size (14), type (8), nr (8)], which _IOC_TYPE, _IOC_NR and
\* _IOC_SIZE (kernel::ioctl) take apart and _IOR puts together.

SCULL_IOC_MAGIC == 96
SCULL_IOC_MAXNR == 6

IOC_TYPE(c) == c.type
IOC_NR(c) == c.nr
IOC_SIZE(c) == c.size

\* _IOR::<i32>(ty, nr): direction read (2), size_of::<i32>()
IOR_i32(ty, nr) == [dir |-> 2, size |-> 4, type |-> ty, nr |-> nr]

SCULL_IOCGQUANTUM == IOR_i32(SCULL_IOC_MAGIC, 5)
SCULL_IOCGQSET == IOR_i32(SCULL_IOC_MAGIC, 6)

\* the bytes of a u32 in memory (little-endian)
u32_bytes(v) == [k \in 1 .. 4 |-> (v \div (256 ^ (k - 1))) % 256]

\* UserSlice::new(arg, size).writer().write(&value): EFAULT when the slice is
\* shorter than the value or the user memory at arg cannot be written
user_write(arg_ok, slice_len, v) ==
    IF slice_len < 4 \/ ~arg_ok THEN [ret |-> Err("EFAULT"), out |-> <<>>]
    ELSE [ret |-> Ok(0), out |-> u32_bytes(v)]

\* match cmd { SCULL_IOCGQUANTUM => quantum, SCULL_IOCGQSET => qset }
ioctl_value_swapped(d, c) == IF c = SCULL_IOCGQUANTUM THEN d.qset ELSE d.quantum

ioctl_value(d, c) == IF c = SCULL_IOCGQUANTUM THEN d.quantum ELSE d.qset

\* the arms of match cmd that answer
ioctl_known_by_nr(c) == IOC_NR(c) \in {IOC_NR(SCULL_IOCGQUANTUM), IOC_NR(SCULL_IOCGQSET)}

ioctl_known(c) == c \in {SCULL_IOCGQUANTUM, SCULL_IOCGQSET}

\* Result: the device, the result, the bytes written to user memory at arg
ioctl(d, c, arg_ok) ==
    IF IOC_TYPE(c) # SCULL_IOC_MAGIC THEN [dev |-> d, ret |-> Err("ENOTTY"), out |-> <<>>]
    ELSE IF IOC_NR(c) > SCULL_IOC_MAXNR THEN [dev |-> d, ret |-> Err("ENOTTY"), out |-> <<>>]
    ELSE IF ioctl_known(c)
         THEN LET w == user_write(arg_ok, IOC_SIZE(c), ioctl_value(d, c))
              IN [dev |-> d, ret |-> w.ret, out |-> w.out]
         ELSE [dev |-> d, ret |-> Err("ENOTTY"), out |-> <<>>]

----------------------------------------------------------------------------
\* Inputs

\* no cmd (the call is no ioctl)
NoCmd == [dir |-> 0, size |-> 0, type |-> 0, nr |-> 0]

\* the two queries; a cmd of another type; numbers above SCULL_IOC_MAXNR;
\* numbers in range that are no query; the numbers of the queries with
\* another direction or size
Cmds == {SCULL_IOCGQUANTUM, SCULL_IOCGQSET}
          \cup {IOR_i32(SCULL_IOC_MAGIC + 1, 5)}
          \cup {IOR_i32(SCULL_IOC_MAGIC, SCULL_IOC_MAXNR + k) : k \in 1 .. MaxNrOver}
          \cup {IOR_i32(SCULL_IOC_MAGIC, 1)}
          \cup {[dir |-> 1, size |-> 4, type |-> SCULL_IOC_MAGIC, nr |-> 5],
                [dir |-> 2, size |-> 8, type |-> SCULL_IOC_MAGIC, nr |-> 6]}

ItemSize == SCULL_QUANTUM * SCULL_QSET

Offsets == (0 .. MaxQPos) \cup {SCULL_QUANTUM - 1, SCULL_QUANTUM}
              \cup {i * ItemSize + 5 : i \in 1 .. MaxItem}

Bytes == 0 .. MaxByte

\* the iov of a write: n bytes counting up from b (mod MaxByte + 1), so that
\* neighbouring bytes differ
Bufs == {[k \in 1 .. n |-> (b + k - 1) % (MaxByte + 1)] : n \in 0 .. MaxLen, b \in Bytes}

Lens == 0 .. MaxLen + 1

\* the reads: <<offset, length>>; one from offset 0 is longer than a quantum
ReadCalls == (Offsets \X Lens) \cup {<<0, SCULL_QUANTUM + 1>>}

\* how much of the iov b of a write can be read from user memory: all of
\* it, or all but its last byte
Readables(b) == {Len(b)} \cup {Len(b) - 1 : k \in 1 .. Min(Len(b), 1)}

\* enough allocations for any write of the model: the qsets, the slot array,
\* the quantum (2)
AllocsAll == MaxItem + 4

Allocs == 0 .. AllocsAll

\* the budgets that differ for a call that makes `used` allocations when none
\* fails: the allocation that fails is one of those, or none is
AllocsFor(used) == 0 .. used

----------------------------------------------------------------------------
\* The device used through one open file

\* nothing found yet
NoLoc == [item |-> -1, s_pos |-> -1, q_pos |-> -1]

\* ScullDevice { data: None, qset: SCULL_QSET, size: 0, quantum: SCULL_QUANTUM }
NewDevice == [data |-> <<>>, qset |-> SCULL_QSET, size |-> 0, quantum |-> SCULL_QUANTUM]

SetDev(d) ==
    /\ data' = d.data
    /\ qset' = d.qset
    /\ size' = d.size
    /\ quantum' = d.quantum

\* MiscDevice::open: a new device; the trim of an O_WRONLY open acts on it
InitDev ==
    /\ \E wronly \in BOOLEAN :
          \E d \in {IF wronly THEN trim(NewDevice) ELSE NewDevice} :
             /\ data = d.data
             /\ qset = d.qset
             /\ size = d.size
             /\ quantum = d.quantum
    /\ op = "open"
    /\ cmd = NoCmd
    /\ f_pos = 0
    /\ buf = <<>>
    /\ len = 0
    /\ ulen = 0
    /\ ret = Ok(0)
    /\ out = <<>>
    /\ ki_pos = 0
    /\ nops = 0
    /\ pre = NewDevice
    /\ high = 0
    /\ failed_after = -1

\* one read_iter call with the device mutex held throughout
CallRead(pos, n, a) ==
    \E r \in {read_iter(dev, pos, n, a)} :
        /\ SetDev(r.dev)
        /\ op' = "read"
        /\ cmd' = NoCmd
        /\ f_pos' = pos
        /\ buf' = <<>>
        /\ len' = n
        /\ ulen' = 0
        /\ ret' = r.ret
        /\ out' = r.out
        /\ ki_pos' = r.ki_pos
        /\ nops' = nops + 1
        /\ pre' = dev
        /\ high' = high
        /\ failed_after' = -1

\* one write_iter call with the device mutex held throughout
CallWrite(pos, b, a, u) ==
    \E r \in {write_iter(dev, pos, b, a, u)} :
        /\ SetDev(r.dev)
        /\ op' = "write"
        /\ cmd' = NoCmd
        /\ f_pos' = pos
        /\ buf' = b
        /\ len' = Len(b)
        /\ ulen' = u
        /\ ret' = r.ret
        /\ out' = <<>>
        /\ ki_pos' = r.ki_pos
        /\ nops' = nops + 1
        /\ pre' = dev
        /\ high' = IF r.ret.ok THEN Max(high, pos + r.ret.n) ELSE high
        /\ failed_after' = IF r.ret.ok THEN -1 ELSE a

\* one trim call
CallTrim ==
    /\ SetDev(trim(dev))
    /\ op' = "trim"
    /\ cmd' = NoCmd
    /\ f_pos' = 0
    /\ buf' = <<>>
    /\ len' = 0
    /\ ulen' = 0
    /\ ret' = Ok(0)
    /\ out' = <<>>
    /\ ki_pos' = 0
    /\ nops' = nops + 1
    /\ pre' = dev
    /\ high' = 0
    /\ failed_after' = -1

\* one ioctl call
CallIoctl(c, arg_ok) ==
    \E r \in {ioctl(dev, c, arg_ok)} :
        /\ SetDev(r.dev)
        /\ op' = "ioctl"
        /\ cmd' = c
        /\ f_pos' = 0
        /\ buf' = <<>>
        /\ len' = 0
        /\ ulen' = 0
        /\ ret' = r.ret
        /\ out' = r.out
        /\ ki_pos' = 0
        /\ nops' = nops + 1
        /\ pre' = dev
        /\ high' = high
        /\ failed_after' = -1

Init ==
    /\ InitDev
    /\ phase = "free"
    /\ cursor = 0
    /\ acc = <<>>
    /\ lock = 0
    /\ pc = <<>>
    /\ plan = <<>>
    /\ order = <<>>
    /\ res = <<>>
    /\ loc = <<>>
    /\ lpos = 0
    /\ rloc = NoLoc
    /\ wloc = NoLoc

Read ==
    /\ nops < MaxOps
    /\ \E c \in ReadCalls :
          \E a \in AllocsFor(AllocsAll - read_iter(dev, c[1], c[2], AllocsAll).a) :
             CallRead(c[1], c[2], a)
    /\ UNCHANGED <<scanvars, concvars, auxvars>>

Write ==
    /\ nops < MaxOps
    /\ \E pos \in Offsets, b \in Bufs :
          \E used \in {AllocsAll - write_iter(dev, pos, b, AllocsAll, Len(b)).a} :
             \E a \in AllocsFor(used) :
                \* the copy is reached when no allocation fails
                \E u \in (IF a = used THEN Readables(b) ELSE {Len(b)}) :
                   CallWrite(pos, b, a, u)
    /\ UNCHANGED <<scanvars, concvars, auxvars>>

\* trim acts on the device in any state (the driver itself calls it from
\* open, on the device it has just created)
Trim ==
    /\ nops < MaxOps
    /\ CallTrim
    /\ UNCHANGED <<scanvars, concvars, auxvars>>

Ioctl ==
    /\ nops < MaxOps
    /\ \E c \in Cmds, arg_ok \in BOOLEAN : CallIoctl(c, arg_ok)
    /\ UNCHANGED <<scanvars, concvars, auxvars>>

Next == Read \/ Write \/ Trim \/ Ioctl

Spec == Init /\ [][Next]_vars

----------------------------------------------------------------------------
\* SpecScan: a caller writes into consecutive quanta from the first, then
\* reads the device from offset 0 to size, call after call, its cursor
\* advanced by what each call returns, until a call returns nothing or the
\* cursor is at size.

InitScan ==
    /\ InitDev
    /\ phase = "write"
    /\ cursor = 0
    /\ acc = <<>>
    /\ lock = 0
    /\ pc = <<>>
    /\ plan = <<>>
    /\ order = <<>>
    /\ res = <<>>
    /\ loc = <<>>
    /\ lpos = 0
    /\ rloc = NoLoc
    /\ wloc = NoLoc

\* the next quantum is written (nops quanta are written so far)
ScanWrite ==
    /\ phase = "write"
    /\ nops < MaxQuanta
    /\ \E q \in 0 .. MaxQPos, b \in Bufs \ {<<>>} :
          CallWrite(nops * SCULL_QUANTUM + q, b, AllocsAll, Len(b))
    /\ UNCHANGED <<scanvars, concvars, auxvars>>

ScanStart ==
    /\ phase = "write"
    /\ nops >= 1
    /\ phase' = "read"
    /\ cursor' = 0
    /\ acc' = <<>>
    /\ UNCHANGED <<devvars, callvars, concvars, auxvars>>

ScanRead ==
    /\ phase = "read"
    /\ CallRead(cursor, size - cursor, AllocsAll)
    /\ acc' = acc \o out'
    /\ cursor' = cursor + ret'.n
    /\ phase' = IF ret'.n = 0 \/ cursor' >= size THEN "done" ELSE "read"
    /\ UNCHANGED <<concvars, auxvars>>

NextScan == ScanWrite \/ ScanStart \/ ScanRead

SpecScan == InitScan /\ [][NextScan]_vars

----------------------------------------------------------------------------
\* SpecConc: NWriters writers on one open file, each making one write_iter
\* call on a range of its own.  write_iter takes the device mutex
\* (dev.lock()), runs, and drops the guard on return.

Writers == 1 .. NWriters

\* the bytes of writer w: its number, 1 to MaxLen times
WriterBufs(w) == {[k \in 1 .. n |-> w] : n \in 1 .. MaxLen}

RangeOf(wr) == wr.pos .. (wr.pos + Len(wr.bytes) - 1)

\* one write per writer, the ranges pairwise disjoint
Plans ==
    {pl \in [Writers -> [pos : Offsets, bytes : UNION {WriterBufs(w) : w \in Writers}]] :
        /\ \A w \in Writers : pl[w].bytes \in WriterBufs(w)
        /\ \A v, w \in Writers : v # w => RangeOf(pl[v]) \cap RangeOf(pl[w]) = {}}

InitConc ==
    /\ InitDev
    /\ phase = "free"
    /\ cursor = 0
    /\ acc = <<>>
    /\ lock = 0
    /\ pc = [w \in Writers |-> "start"]
    /\ plan \in Plans
    /\ order = <<>>
    /\ res = <<>>
    /\ loc = <<>>
    /\ lpos = 0
    /\ rloc = NoLoc
    /\ wloc = NoLoc

\* let mut dev = dev.lock();
Lock(w) ==
    /\ pc[w] = "start"
    /\ lock = 0
    /\ lock' = w
    /\ pc' = [pc EXCEPT ![w] = "locked"]
    /\ order' = Append(order, w)
    /\ UNCHANGED <<devvars, callvars, scanvars, plan, auxvars>>

\* the body of write_iter, the mutex held
WriteLocked(w) ==
    /\ pc[w] = "locked"
    /\ lock = w
    /\ CallWrite(plan[w].pos, plan[w].bytes, AllocsAll, Len(plan[w].bytes))
    /\ pc' = [pc EXCEPT ![w] = "written"]
    /\ UNCHANGED <<scanvars, lock, plan, order, auxvars>>

\* the guard is dropped when write_iter returns
Unlock(w) ==
    /\ pc[w] = "written"
    /\ lock = w
    /\ lock' = 0
    /\ pc' = [pc EXCEPT ![w] = "done"]
    /\ UNCHANGED <<devvars, callvars, scanvars, plan, order, auxvars>>

NextConc == \E w \in Writers : Lock(w) \/ WriteLocked(w) \/ Unlock(w)

SpecConc == InitConc /\ [][NextConc]_vars

----------------------------------------------------------------------------
\* SpecLocate: read_iter and write_iter each find the list item, the slot
\* and the offset in the quantum of one offset.

LocOffsets ==
    {i * ItemSize + sl * SCULL_QUANTUM + q :
        i \in 0 .. MaxItem,
        sl \in (0 .. MaxSlot) \cup {SCULL_QSET - 1},
        q \in (0 .. MaxQPos) \cup {SCULL_QUANTUM - 2, SCULL_QUANTUM - 1}}

InitLocate ==
    /\ InitDev
    /\ phase = "free"
    /\ cursor = 0
    /\ acc = <<>>
    /\ lock = 0
    /\ pc = <<>>
    /\ plan = <<>>
    /\ order = <<>>
    /\ res = <<>>
    /\ loc = <<>>
    /\ lpos \in LocOffsets
    /\ rloc = NoLoc
    /\ wloc = NoLoc

LocateRead ==
    /\ rloc = NoLoc
    /\ rloc' = read_locate(dev, lpos)
    /\ UNCHANGED <<devvars, callvars, scanvars, concvars, res, loc, lpos, wloc>>

LocateWrite ==
    /\ wloc = NoLoc
    /\ wloc' = write_locate(dev, lpos)
    /\ UNCHANGED <<devvars, callvars, scanvars, concvars, res, loc, lpos, rloc>>

NextLocate == LocateRead \/ LocateWrite

SpecLocate == InitLocate /\ [][NextLocate]_vars

----------------------------------------------------------------------------
\* SpecLock: NProcs callers on one open file, each making one call: a
\* write_iter, a read_iter, an ioctl or a trim.  A call takes the device
\* mutex (dev.lock()), runs its body statement by statement, and the guard
\* is dropped when it returns, by whatever path.  ioctl checks the type and
\* the number of cmd before it takes the mutex.

Procs == 1 .. NProcs

WriteJob(pos, bytes, a, u) ==
    [kind |-> "write", pos |-> pos, bytes |-> bytes, len |-> Len(bytes), a |-> a,
     ulen |-> u, cmd |-> NoCmd, arg_ok |-> TRUE]

ReadJob(pos, n) ==
    [kind |-> "read", pos |-> pos, bytes |-> <<>>, len |-> n, a |-> AllocsAll,
     ulen |-> 0, cmd |-> NoCmd, arg_ok |-> TRUE]

IoctlJob(c) ==
    [kind |-> "ioctl", pos |-> 0, bytes |-> <<>>, len |-> 0, a |-> AllocsAll,
     ulen |-> 0, cmd |-> c, arg_ok |-> TRUE]

TrimJob ==
    [kind |-> "trim", pos |-> 0, bytes |-> <<>>, len |-> 0, a |-> AllocsAll,
     ulen |-> 0, cmd |-> NoCmd, arg_ok |-> TRUE]

\* the calls of caller p: writes of its own number (one into the first
\* quantum, one with a single allocation left, one into the second
\* quantum, one of which the user memory can be read in part), a read from
\* offset 0, a query, a cmd of another type, a cmd in
\* range that is no query, a trim
JobsOf(p) ==
    {WriteJob(0, <<p, p>>, AllocsAll, 2), WriteJob(0, <<p>>, 1, 1),
     WriteJob(SCULL_QUANTUM, <<p>>, AllocsAll, 1), WriteJob(2, <<p, p>>, AllocsAll, 1),
     ReadJob(0, 2),
     IoctlJob(SCULL_IOCGQUANTUM), IoctlJob(IOR_i32(SCULL_IOC_MAGIC + 1, 5)),
     IoctlJob(IOR_i32(SCULL_IOC_MAGIC, 1)),
     TrimJob}

LockPlans == {pl \in [Procs -> UNION {JobsOf(p) : p \in Procs}] :
                 \A p \in Procs : pl[p] \in JobsOf(p)}

NoRes == [ret |-> Ok(0), out |-> <<>>]
NoLocals == [idx |-> 0, n |-> 0, newpos |-> 0, grow |-> FALSE]

\* Mutex::lock returns when the mutex is free
mutex_free_always(l) == TRUE

mutex_free(l) == l = 0

\* the guard goes out of scope: the mutex is free again
guard_kept(l) == l

guard_drop(l) == 0

InitLock ==
    /\ InitDev
    /\ phase = "free"
    /\ cursor = 0
    /\ acc = <<>>
    /\ lock = 0
    /\ pc = [p \in Procs |-> "start"]
    /\ plan \in LockPlans
    /\ order = <<>>
    /\ res = [p \in Procs |-> NoRes]
    /\ loc = [p \in Procs |-> NoLocals]
    /\ lpos = 0
    /\ rloc = NoLoc
    /\ wloc = NoLoc

lockframe == <<callvars, scanvars, plan, lpos, rloc, wloc>>

\* ioctl: "don't decode wrong cmds: return ENOTTY", before dev.lock()
IoctlCheck(p) ==
    /\ pc[p] = "start"
    /\ plan[p].kind = "ioctl"
    /\ IF \/ IOC_TYPE(plan[p].cmd) # SCULL_IOC_MAGIC
          \/ IOC_NR(plan[p].cmd) > SCULL_IOC_MAXNR
       THEN /\ res' = [res EXCEPT ![p] = [ret |-> Err("ENOTTY"), out |-> <<>>]]
            /\ pc' = [pc EXCEPT ![p] = "done"]
       ELSE /\ res' = res
            /\ pc' = [pc EXCEPT ![p] = "checked"]
    /\ UNCHANGED <<devvars, lock, order, loc, lockframe>>

\* let mut dev = dev.lock();
Acquire(p) ==
    /\ pc[p] = (IF plan[p].kind = "ioctl" THEN "checked" ELSE "start")
    /\ mutex_free(lock)
    /\ lock' = p
    /\ pc' = [pc EXCEPT ![p] = "locked"]
    /\ order' = Append(order, p)
    /\ UNCHANGED <<devvars, res, loc, lockframe>>

\* write_iter: follow, the slot array, the quantum; ENOMEM from any of them
WriteAlloc(p) ==
    /\ pc[p] = "locked"
    /\ plan[p].kind = "write"
    /\ LET lc == write_locate(dev, plan[p].pos)
           fl == follow(data, lc.item, plan[p].a)
           sl == alloc_slots(fl.data, fl.idx, fl.a)
           qa == alloc_quantum(sl.data, fl.idx, lc.s_pos, sl.a)
           fail(dd) == /\ data' = write_fail(dev, dd, plan[p].pos).dev.data
                       /\ res' = [res EXCEPT ![p] =
                                    [ret |-> write_fail(dev, dd, plan[p].pos).ret,
                                     out |-> <<>>]]
                       /\ loc' = loc
                       /\ pc' = [pc EXCEPT ![p] = "ret"]
       IN  IF ~fl.ok THEN fail(fl.data)
           ELSE IF ~sl.ok THEN fail(sl.data)
           ELSE IF ~qa.ok THEN fail(qa.data)
           ELSE /\ data' = qa.data
                /\ res' = res
                /\ loc' = [loc EXCEPT ![p].idx = fl.idx]
                /\ pc' = [pc EXCEPT ![p] = "w_copy"]
    /\ UNCHANGED <<qset, size, quantum, lock, order, lockframe>>

\* write_iter: the clamp, copy_from_iter, ki_pos += count
WriteCopy(p) ==
    /\ pc[p] = "w_copy"
    /\ LET lc == write_locate(dev, plan[p].pos)
           count == write_clamp(Len(plan[p].bytes), quantum, lc.q_pos)
           cp == copy_from_iter(data[loc[p].idx].slots[lc.s_pos], lc.q_pos, count,
                                plan[p].bytes, plan[p].ulen)
       IN /\ data' = [data EXCEPT ![loc[p].idx].slots[lc.s_pos] = cp.q]
          /\ loc' = [loc EXCEPT ![p].n = cp.n, ![p].newpos = plan[p].pos + count]
    /\ pc' = [pc EXCEPT ![p] = "w_test"]
    /\ UNCHANGED <<qset, size, quantum, lock, order, res, lockframe>>

\* write_iter: if dev.size < kiocb.ki_pos()
WriteTestSize(p) ==
    /\ pc[p] = "w_test"
    /\ loc' = [loc EXCEPT ![p].grow = (update_size(size, loc[p].newpos) # size)]
    /\ pc' = [pc EXCEPT ![p] = "w_size"]
    /\ UNCHANGED <<devvars, lock, order, res, lockframe>>

\* write_iter: dev.size = kiocb.ki_pos(); Ok(retval)
WriteSetSize(p) ==
    /\ pc[p] = "w_size"
    /\ size' = (IF loc[p].grow THEN loc[p].newpos ELSE size)
    /\ res' = [res EXCEPT ![p] = [ret |-> Ok(loc[p].n), out |-> <<>>]]
    /\ pc' = [pc EXCEPT ![p] = "ret"]
    /\ UNCHANGED <<data, qset, quantum, lock, order, loc, lockframe>>

\* the body of read_iter
ReadBody(p) ==
    /\ pc[p] = "locked"
    /\ plan[p].kind = "read"
    /\ \E r \in {read_iter(dev, plan[p].pos, plan[p].len, plan[p].a)} :
          /\ SetDev(r.dev)
          /\ res' = [res EXCEPT ![p] = [ret |-> r.ret, out |-> r.out]]
    /\ pc' = [pc EXCEPT ![p] = "ret"]
    /\ UNCHANGED <<lock, order, loc, lockframe>>

\* ioctl: match cmd
IoctlBody(p) ==
    /\ pc[p] = "locked"
    /\ plan[p].kind = "ioctl"
    /\ \E r \in {ioctl(dev, plan[p].cmd, plan[p].arg_ok)} :
          res' = [res EXCEPT ![p] = [ret |-> r.ret, out |-> r.out]]
    /\ pc' = [pc EXCEPT ![p] = "ret"]
    /\ UNCHANGED <<devvars, lock, order, loc, lockframe>>

\* trim: self.data.take(), the list dropped
TrimTake(p) ==
    /\ pc[p] = "locked"
    /\ plan[p].kind = "trim"
    /\ data' = <<>>
    /\ pc' = [pc EXCEPT ![p] = "t_size"]
    /\ UNCHANGED <<qset, size, quantum, lock, order, res, loc, lockframe>>

\* trim: self.size = 0
TrimSize(p) ==
    /\ pc[p] = "t_size"
    /\ size' = trim(dev).size
    /\ res' = [res EXCEPT ![p] = [ret |-> Ok(0), out |-> <<>>]]
    /\ pc' = [pc EXCEPT ![p] = "ret"]
    /\ UNCHANGED <<data, qset, quantum, lock, order, loc, lockframe>>

\* the call returns: the guard is dropped
Release(p) ==
    /\ pc[p] = "ret"
    /\ lock' = (IF lock = p THEN guard_drop(lock) ELSE lock)
    /\ pc' = [pc EXCEPT ![p] = "done"]
    /\ UNCHANGED <<devvars, order, res, loc, lockframe>>

ProcStep(p) ==
    \/ IoctlCheck(p)
    \/ Acquire(p)
    \/ WriteAlloc(p)
    \/ WriteCopy(p)
    \/ WriteTestSize(p)
    \/ WriteSetSize(p)
    \/ ReadBody(p)
    \/ IoctlBody(p)
    \/ TrimTake(p)
    \/ TrimSize(p)
    \/ Release(p)

NextLock == \E p \in Procs : ProcStep(p)

SpecLock == InitLock /\ [][NextLock]_vars

\* every caller that can take a step is scheduled in the end, and a caller
\* waiting for the mutex gets it once it stays free
SpecLockFair == SpecLock /\ \A p \in Procs : WF_vars(ProcStep(p))

----------------------------------------------------------------------------
\* What the claims speak of

\* the number of qsets in the list
Tables(d) == Len(d.data)

\* the offset in its quantum of the byte at offset o
QOff(o) == o % SCULL_QUANTUM

\* the position in the list (1-based) and the slot of the quantum of offset o
TableOf(o) == (o \div ItemSize) + 1
SlotOf(o) == (o % ItemSize) \div SCULL_QUANTUM

\* the quantum of offset o is allocated in d
HasQuantum(d, o) ==
    /\ TableOf(o) <= Len(d.data)
    /\ d.data[TableOf(o)].alloc
    /\ SlotOf(o) \in DOMAIN d.data[TableOf(o)].slots

\* every quantum of d, as the set of <<table, slot>>
Quanta(d) == UNION {{<<i, s>> : s \in DOMAIN d.data[i].slots} : i \in 1 .. Len(d.data)}

\* the quantum <<table, slot>> of d
QuantumOf(d, ts) == d.data[ts[1]].slots[ts[2]]

\* the room left in the quantum at offset o
Room(o) == SCULL_QUANTUM - QOff(o)

----------------------------------------------------------------------------
\* C1 (as claimed): a successful write of a non-empty B at O that stays in one
\* quantum, followed immediately by a read of Len(B) bytes at O, returns
\* exactly B.
C1_RoundTrip ==
    [][(/\ op = "write" /\ ret.ok /\ Len(buf) > 0
        /\ QOff(f_pos) + Len(buf) <= SCULL_QUANTUM
        /\ op' = "read" /\ f_pos' = f_pos /\ len' = Len(buf))
       => (ret'.ok /\ ret'.n = Len(buf) /\ out' = buf)]_vars

\* C2: a read at an offset at or beyond size returns a successful
\* zero-length result, whatever the length asked for.
C2_EndOfStream ==
    (op = "read" /\ f_pos >= pre.size) => (ret = Ok(0) /\ out = <<>>)

C2_Witness ==
    /\ op = "read" /\ f_pos >= pre.size /\ len > 0
    /\ pre.size > 0 /\ HasQuantum(pre, f_pos)
    /\ ret = Ok(0)

\* C3 (as claimed): a read below size in a quantum that is not allocated
\* returns a successful zero-length result, and a read (of at least one
\* byte) below size in an allocated quantum returns a non-empty result.
C3_SparseHole ==
    (op = "read" /\ f_pos < pre.size) =>
        /\ ~HasQuantum(pre, f_pos) => (ret = Ok(0) /\ out = <<>>)
        /\ (HasQuantum(pre, f_pos) /\ len > 0) => (ret.ok /\ ret.n > 0)

\* C4: after trim the device is as created: size 0, no qset, quantum and
\* qset as created, every read empty, and trim again changes nothing; the
\* device being equal to a new one, every later call does what it does on a
\* new one.
C4_TrimIsFresh ==
    op = "trim" =>
        /\ size = 0
        /\ data = <<>>
        /\ quantum = SCULL_QUANTUM /\ qset = SCULL_QSET
        /\ dev = NewDevice
        /\ trim(dev) = dev
        /\ \A pos \in Offsets, n \in Lens, a \in Allocs :
              LET r == read_iter(dev, pos, n, a)
              IN r.ret = Ok(0) /\ r.out = <<>>
        /\ \A pos \in Offsets, b \in Bufs, a \in Allocs :
              \A u \in Readables(b) :
                 write_iter(dev, pos, b, a, u) = write_iter(NewDevice, pos, b, a, u)

C4_Witness ==
    op = "trim" /\ pre.size > 0 /\ pre.data # <<>> /\ Quanta(pre) # {} /\ size = 0

\* C5 (as claimed): a read returns at most Min(len, room left in the quantum) bytes, a
\* successful write writes exactly Min(len, room left in the quantum) bytes,
\* and a write changes no quantum but the one of its offset, in which every
\* byte lies within the quantum.
C5_Clamp ==
    /\ (op = "read" /\ ret.ok) =>
           (ret.n <= Min(len, Room(f_pos)) /\ Len(out) = ret.n)
    /\ (op = "write" /\ ret.ok) =>
           /\ ret.n = Min(len, Room(f_pos))
           /\ ki_pos = f_pos + ret.n
           /\ \A ts \in Quanta(dev) :
                 /\ DOMAIN QuantumOf(dev, ts) \subseteq 0 .. SCULL_QUANTUM - 1
                 /\ (ts # <<TableOf(f_pos), SlotOf(f_pos)>> /\ ts \in Quanta(pre))
                       => QuantumOf(dev, ts) = QuantumOf(pre, ts)
                 /\ ts \notin Quanta(pre) => ts = <<TableOf(f_pos), SlotOf(f_pos)>>

\* C7: a successful write at O leaves exactly Max(tables before,
\* O \div (quantum * qset) + 1) qsets in the list; a write at
\* quantum * qset + 5 on an empty device leaves exactly two, the first
\* without a slot array, and a read at 0 then returns empty without error.
C7_EagerTables ==
    (op = "write" /\ ret.ok) =>
        /\ Tables(dev) = Max(Tables(pre), (f_pos \div ItemSize) + 1)
        /\ (pre.data = <<>> /\ f_pos = ItemSize + 5) =>
              /\ Tables(dev) = 2
              /\ ~data[1].alloc
              /\ \A n \in Lens, a \in Allocs :
                    LET r == read_iter(dev, 0, n, a)
                    IN r.ret = Ok(0) /\ r.out = <<>>

C7_Witness ==
    /\ op = "write" /\ ret.ok /\ pre.data = <<>> /\ f_pos = ItemSize + 5
    /\ Tables(dev) = 2 /\ size > 0

\* C8 (as claimed): a successful write sets size to Max(size before, f_pos + written);
\* size is the highest f_pos + written of the successful writes since the
\* last trim (0 if none); only trim makes size smaller.
C8_SizeTracking ==
    /\ (op = "write" /\ ret.ok) => size = Max(pre.size, f_pos + ret.n)
    /\ size = high
    /\ size < pre.size => op = "trim"

\* C9: a write in which an allocation fails returns ENOMEM, leaves size and
\* every stored byte as they were, and keeps every qset linked: those of
\* before and those the call linked before the failure.
C9_WriteFailure ==
    (op = "write" /\ ~ret.ok) =>
        /\ ret.err = "ENOMEM"
        /\ size = pre.size
        /\ ki_pos = f_pos
        /\ Quanta(pre) \subseteq Quanta(dev)
        /\ \A ts \in Quanta(pre) : QuantumOf(dev, ts) = QuantumOf(pre, ts)
        /\ \A i \in 1 .. Tables(pre) : pre.data[i].alloc => data[i].alloc
        /\ Tables(dev) =
              Max(Tables(pre), Min(TableOf(f_pos), Tables(pre) + failed_after))

C9_Witness ==
    /\ op = "write" /\ ~ret.ok /\ pre.size > 0 /\ Quanta(pre) # {}
    /\ Tables(dev) > Tables(pre)

\* the byte stored at offset o, its quantum being allocated
StoredByte(o) == ByteAt(data[TableOf(o)].slots[SlotOf(o)], QOff(o))

\* C6 (as claimed): quanta 0 .. k-1 being written, the caller that reads from
\* offset 0 call after call ends with the concatenation equal to the bytes
\* of offsets 0 .. size-1: the bytes written, 0 everywhere else.
C6_ScanAcrossQuanta ==
    phase = "done" =>
        /\ Len(acc) = size
        /\ \A k \in 1 .. Len(acc) : acc[k] = StoredByte(k - 1)

\* the device after the writes of the writers ws, one after the other
RECURSIVE SeqRun(_, _)
SeqRun(d, ws) ==
    IF ws = <<>> THEN d
    ELSE SeqRun(write_iter(d, plan[Head(ws)].pos, plan[Head(ws)].bytes, AllocsAll,
                           Len(plan[Head(ws)].bytes)).dev,
                Tail(ws))

AllDone == pc # <<>> /\ \A w \in Writers : pc[w] = "done"

\* C10: when every writer is done, the device (bytes, qsets and size) is the
\* one the writes leave when run one after the other in the order the
\* mutex was taken, and the one they leave in the order of the writers'
\* numbers and in the reverse of it: the same for every interleaving.
C10_DisjointWritersCommute ==
    AllDone =>
        /\ dev = SeqRun(NewDevice, order)
        /\ dev = SeqRun(NewDevice, [i \in 1 .. NWriters |-> i])
        /\ dev = SeqRun(NewDevice, [i \in 1 .. NWriters |-> NWriters + 1 - i])

C10_Witness ==
    /\ AllDone
    /\ order[1] # 1
    /\ \E v, w \in Writers :
          /\ v # w
          /\ TableOf(plan[v].pos) = TableOf(plan[w].pos)
          /\ SlotOf(plan[v].pos) = SlotOf(plan[w].pos)
    /\ size > 0
    /\ Quanta(dev) # {}

\* C12: a read changes nothing of the device: size, the qsets of the list,
\* their slot arrays and every quantum are as before the call.
C12_ReadFrame ==
    op = "read" => dev = pre

C12_Witness ==
    /\ op = "read" /\ len > 0 /\ f_pos < pre.size
    /\ Tables(pre) >= 1 /\ ~HasQuantum(pre, f_pos)
    /\ dev = pre

\* C13 (as claimed): a read at offset O returns at most size - O bytes.
C13_ReadableExtent ==
    (op = "read" /\ ret.ok) => ret.n <= Max(pre.size - f_pos, 0)

\* the u32 of four bytes in memory
U32Of(b) == b[1] + 256 * b[2] + 65536 * b[3] + 16777216 * b[4]

\* C14: quantum and qset are in every state the values the device was
\* created with; an ioctl changes nothing of the device, and a query that
\* succeeds writes exactly the value asked for (SCULL_IOCGQUANTUM quantum,
\* SCULL_IOCGQSET qset); a query fails only with EFAULT.
C14_ConfigImmutable ==
    /\ quantum = SCULL_QUANTUM
    /\ qset = SCULL_QSET
    /\ op = "ioctl" =>
          /\ dev = pre
          /\ (cmd = SCULL_IOCGQUANTUM /\ ret.ok) =>
                (ret = Ok(0) /\ Len(out) = 4 /\ U32Of(out) = SCULL_QUANTUM)
          /\ (cmd = SCULL_IOCGQSET /\ ret.ok) =>
                (ret = Ok(0) /\ Len(out) = 4 /\ U32Of(out) = SCULL_QSET)
          /\ (cmd \in {SCULL_IOCGQUANTUM, SCULL_IOCGQSET} /\ ~ret.ok) =>
                ret.err = "EFAULT"

C14_Witness ==
    /\ op = "ioctl" /\ cmd = SCULL_IOCGQSET /\ ret.ok
    /\ U32Of(out) = SCULL_QSET
    /\ pre.size > 0 /\ Quanta(pre) # {}

\* C15: an ioctl whose cmd has another type than SCULL_IOC_MAGIC, a number
\* above SCULL_IOC_MAXNR, or is none of the two queries, returns ENOTTY,
\* writes nothing and changes nothing of the device.
C15_IoctlRejected ==
    (/\ op = "ioctl"
     /\ \/ IOC_TYPE(cmd) # SCULL_IOC_MAGIC
        \/ IOC_NR(cmd) > SCULL_IOC_MAXNR
        \/ cmd \notin {SCULL_IOCGQUANTUM, SCULL_IOCGQSET})
    => (ret = Err("ENOTTY") /\ out = <<>> /\ dev = pre)

C15_Witness ==
    /\ op = "ioctl"
    /\ IOC_TYPE(cmd) = SCULL_IOC_MAGIC /\ IOC_NR(cmd) = IOC_NR(SCULL_IOCGQUANTUM)
    /\ cmd # SCULL_IOCGQUANTUM
    /\ ret = Err("ENOTTY")
    /\ pre.size > 0

\* the device after the step
devNext == [data |-> data', qset |-> qset', size |-> size', quantum |-> quantum']

\* C17: when a write fails with ENOMEM and the next call is the same write
\* and succeeds, the device is the one the write leaves when it succeeds at
\* once on the device of before the failure: as many qsets (none twice),
\* the same bytes, the same size.
C17_RetryAfterFailure ==
    [][(/\ op = "write" /\ ~ret.ok
        /\ op' = "write" /\ ret'.ok /\ f_pos' = f_pos /\ buf' = buf)
       => (/\ devNext = write_iter(pre, f_pos, buf, AllocsAll, ulen').dev
           /\ ret' = write_iter(pre, f_pos, buf, AllocsAll, ulen').ret
           /\ Len(data') = Max(Tables(pre), TableOf(f_pos))
           /\ size' = Max(pre.size, f_pos + Min(Len(buf), Room(f_pos))))]_vars

C17_Witness ==
    /\ nops = 2 /\ op = "write" /\ ret.ok /\ len > 0
    /\ pre.size = 0 /\ Quanta(pre) = {}
    /\ Tables(pre) = 2 /\ TableOf(f_pos) = 2 /\ pre.data[2].alloc
    /\ Tables(dev) = 2

\* C19: a successful write of n bytes at O changes the bytes at O .. O+n-1
\* of the quantum of O (to the bytes given) and no other byte: the other
\* bytes of that quantum are as before (0 if the quantum was not
\* allocated), every other quantum is as before, none is dropped.
C19_WriteFrame ==
    (op = "write" /\ ret.ok) =>
        LET ts == <<TableOf(f_pos), SlotOf(f_pos)>>
            old == IF ts \in Quanta(pre) THEN QuantumOf(pre, ts) ELSE ZeroQuantum
            new == QuantumOf(dev, ts)
            from == QOff(f_pos)
        IN /\ ts \in Quanta(dev)
           /\ \A i \in DOMAIN old \cup DOMAIN new \cup (from .. from + len - 1) :
                 ByteAt(new, i) = IF i >= from /\ i < from + ret.n
                                  THEN buf[i - from + 1]
                                  ELSE ByteAt(old, i)
           /\ Quanta(dev) = Quanta(pre) \cup {ts}
           /\ \A t2 \in Quanta(pre) : t2 # ts => QuantumOf(dev, t2) = QuantumOf(pre, t2)

C19_Witness ==
    /\ op = "write" /\ ret.ok /\ ret.n > 0
    /\ <<TableOf(f_pos), SlotOf(f_pos)>> \in Quanta(pre)
    /\ \E i \in DOMAIN QuantumOf(pre, <<TableOf(f_pos), SlotOf(f_pos)>>) :
          /\ i < QOff(f_pos) \/ i >= QOff(f_pos) + ret.n
          /\ ByteAt(QuantumOf(dev, <<TableOf(f_pos), SlotOf(f_pos)>>), i) # 0

\* C20: in every state with size > 0 the list holds at least
\* (size - 1) \div (quantum * qset) + 1 qsets.
C20_ChainCoversSize ==
    size > 0 => Tables(dev) >= ((size - 1) \div ItemSize) + 1

C20_Witness ==
    /\ op = "write" /\ ret.ok /\ len = 0
    /\ f_pos > ItemSize /\ size = f_pos
    /\ Tables(dev) = TableOf(f_pos)

\* C18: read_iter and write_iter find the same (item, s_pos, q_pos) for an
\* offset, with item * quantum * qset + s_pos * quantum + q_pos the offset,
\* 0 <= s_pos < qset and 0 <= q_pos < quantum; no other offset has the same.
C18_Decomposition ==
    /\ (rloc # NoLoc /\ wloc # NoLoc) => rloc = wloc
    /\ \A l \in {rloc, wloc} \ {NoLoc} :
          /\ l.item * SCULL_QUANTUM * SCULL_QSET + l.s_pos * SCULL_QUANTUM + l.q_pos = lpos
          /\ l.item >= 0
          /\ l.s_pos >= 0 /\ l.s_pos < SCULL_QSET
          /\ l.q_pos >= 0 /\ l.q_pos < SCULL_QUANTUM
          /\ \A o \in LocOffsets \ {lpos} :
                read_locate(dev, o) # l /\ write_locate(dev, o) # l

C18_Witness ==
    /\ rloc # NoLoc /\ wloc # NoLoc
    /\ wloc.item >= 1 /\ wloc.s_pos = SCULL_QSET - 1 /\ wloc.q_pos = SCULL_QUANTUM - 1
    /\ rloc = wloc

\* SpecLock: the callers between dev.lock() and the drop of the guard
Inside == {p \in Procs : pc[p] \in {"locked", "w_copy", "w_test", "w_size", "t_size", "ret"}}

\* one whole call on device d
JobRun(d, j) ==
    CASE j.kind = "write" -> write_iter(d, j.pos, j.bytes, j.a, j.ulen)
      [] j.kind = "read" -> read_iter(d, j.pos, j.len, j.a)
      [] j.kind = "ioctl" -> ioctl(d, j.cmd, j.arg_ok)
      [] OTHER -> [dev |-> trim(d), ret |-> Ok(0), out |-> <<>>]

\* the calls of the callers of ord, one whole call after the other
RECURSIVE Replay(_, _, _)
Replay(d, ord, rs) ==
    IF ord = <<>> THEN [dev |-> d, res |-> rs]
    ELSE LET r == JobRun(d, plan[Head(ord)])
         IN Replay(r.dev, Tail(ord),
                   [rs EXCEPT ![Head(ord)] = [ret |-> r.ret, out |-> r.out]])

\* the callers that have been through the mutex, in the order they took it
Through == SelectSeq(order, LAMBDA p : pc[p] = "done")

\* C11: a caller is between dev.lock() and its return only as the holder of
\* the mutex, so at most one is; each finished call has the result, and with
\* the mutex free the device has the state, of the calls run whole, one
\* after the other in the order they took the mutex: no call sees or leaves
\* a part of another.
C11_Atomic ==
    /\ \A p \in Inside : lock = p
    /\ \A p, q \in Inside : p = q
    /\ lock # 0 => lock \in Inside
    /\ \A k \in 1 .. Len(Through) :
          res[Through[k]] = Replay(NewDevice, Through, res).res[Through[k]]
    /\ lock = 0 => dev = Replay(NewDevice, order, res).dev
    /\ \A p \in Procs :
          (pc[p] = "done" /\ \A k \in 1 .. Len(order) : order[k] # p)
             => (plan[p].kind = "ioctl" /\ res[p] = [ret |-> Err("ENOTTY"), out |-> <<>>]
                 /\ ~ioctl(dev, plan[p].cmd, plan[p].arg_ok).ret.ok)

\* a write that grew the device and a read that took the mutex after it and
\* got its bytes, both finished
C11_Witness ==
    /\ \A p \in Procs : pc[p] = "done"
    /\ lock = 0
    /\ Len(order) = NProcs
    /\ \E k \in 1 .. Len(order) - 1 :
          /\ plan[order[k]].kind = "write"
          /\ res[order[k]].ret = Ok(2)
          /\ plan[order[k + 1]].kind = "read"
          /\ res[order[k + 1]].out = plan[order[k]].bytes
    /\ size = 2

\* C16: a call that takes the mutex gives it back on every path, so with
\* fair scheduling every caller finishes its call and a held mutex becomes
\* free.
C16_Progress ==
    /\ \A p \in Procs : <>(pc[p] = "done")
    /\ (lock # 0) ~> (lock = 0)
    /\ [](\A p \in Procs : pc[p] = "done" => lock # p)

\* all calls finished, the mutex free, after a call that returned early with
\* the mutex held: ENOMEM, or a cmd that no arm of the match answers
C16_Witness ==
    /\ \A p \in Procs : pc[p] = "done"
    /\ lock = 0
    /\ Len(order) = NProcs
    /\ \E p \in Procs :
          \/ plan[p].kind = "write" /\ res[p].ret = Err("ENOMEM")
          \/ plan[p].kind = "ioctl" /\ res[p].ret = Err("ENOTTY")
====
